---- MODULE Spec2Model ----
(***************************************************************************)
(* Lead intake endpoints of strativabuild.                                 *)
(*                                                                         *)
(*   server.js                  POST /api/rb/lead -> Google Sheets          *)
(*   netlify/functions/rb-lead.js   exports.handler -> Supabase rb_leads    *)
(*                                                                         *)
(* JavaScript values are tagged records; a JavaScript string is the        *)
(* sequence of its characters, so that trim(), String() and Number() are   *)
(* computed character by character.                                        *)
(***************************************************************************)
EXTENDS Integers, Sequences, FiniteSets, TLC

\* ------------------------------------------------------------------------
\* Bounds
\* ------------------------------------------------------------------------
\* longest input string drawn for a field
MaxStrLen == 2
\* number of concurrent requests to server.js
NumReqs == 2

\* ------------------------------------------------------------------------
\* JavaScript values
\* ------------------------------------------------------------------------
Undefined == [t |-> "undef", n |-> 0, s |-> <<>>, b |-> FALSE]
Null      == [t |-> "null",  n |-> 0, s |-> <<>>, b |-> FALSE]
NaN       == [t |-> "nan",   n |-> 0, s |-> <<>>, b |-> FALSE]
Bool(x)   == [t |-> "bool",  n |-> 0, s |-> <<>>, b |-> x]
Num(k)    == [t |-> "num",   n |-> k, s |-> <<>>, b |-> FALSE]
Str(q)    == [t |-> "str",   n |-> 0, s |-> q,    b |-> FALSE]

DigitChars == <<"0", "1", "2", "3", "4", "5", "6", "7", "8", "9">>

IsDigit(c) == \E i \in 1..10 : DigitChars[i] = c

DigitVal(c) == (CHOOSE i \in 1..10 : DigitChars[i] = c) - 1

\* decimal digits of a non-negative integer
RECURSIVE Digits(_)
Digits(k) ==
  IF k < 10 THEN <<DigitChars[k + 1]>>
  ELSE Digits(k \div 10) \o <<DigitChars[(k % 10) + 1]>>

\* String(v), as a character sequence
StringChars(v) ==
  CASE v.t = "undef" -> <<"u","n","d","e","f","i","n","e","d">>
    [] v.t = "null"  -> <<"n","u","l","l">>
    [] v.t = "nan"   -> <<"N","a","N">>
    [] v.t = "bool"  -> IF v.b THEN <<"t","r","u","e">> ELSE <<"f","a","l","s","e">>
    [] v.t = "num"   -> Digits(v.n)
    [] v.t = "str"   -> v.s

\* String(v)
String(v) == Str(StringChars(v))

IsSpace(c) == c = " "

RECURSIVE TrimStart(_)
TrimStart(q) ==
  IF q = <<>> THEN <<>>
  ELSE IF IsSpace(Head(q)) THEN TrimStart(Tail(q)) ELSE q

RECURSIVE TrimEnd(_)
TrimEnd(q) ==
  IF q = <<>> THEN <<>>
  ELSE IF IsSpace(q[Len(q)]) THEN TrimEnd(SubSeq(q, 1, Len(q) - 1)) ELSE q

\* String.prototype.trim on a character sequence
TrimChars(q) == TrimEnd(TrimStart(q))

\* x.trim() on a string value
Trim(v) == Str(TrimChars(v.s))

RECURSIVE ParseDigits(_)
ParseDigits(q) ==
  IF q = <<>> THEN 0
  ELSE 10 * ParseDigits(SubSeq(q, 1, Len(q) - 1)) + DigitVal(q[Len(q)])

\* Number(v).  A string is trimmed; the empty string is 0, a run of decimal
\* digits is its value, anything else over the modelled alphabet is NaN.
Number(v) ==
  CASE v.t = "undef" -> NaN
    [] v.t = "null"  -> Num(0)
    [] v.t = "nan"   -> NaN
    [] v.t = "bool"  -> IF v.b THEN Num(1) ELSE Num(0)
    [] v.t = "num"   -> v
    [] v.t = "str"   ->
         LET q == TrimChars(v.s) IN
           IF q = <<>> THEN Num(0)
           ELSE IF \A i \in 1..Len(q) : IsDigit(q[i]) THEN Num(ParseDigits(q))
           ELSE NaN

\* Number.isFinite(n)
IsFinite(v) == v.t = "num"

\* ToBoolean(v)
Truthy(v) ==
  CASE v.t = "undef" -> FALSE
    [] v.t = "null"  -> FALSE
    [] v.t = "nan"   -> FALSE
    [] v.t = "bool"  -> v.b
    [] v.t = "num"   -> v.n # 0
    [] v.t = "str"   -> v.s # <<>>

\* a || b
Or(a, b) == IF Truthy(a) THEN a ELSE b

EmptyStr == Str(<<>>)

\* ------------------------------------------------------------------------
\* Submissions (request bodies)
\* ------------------------------------------------------------------------
Keys ==
  { "fullName", "primaryPhone", "preferredChannel", "email", "parish",
    "community", "propertyStatus", "rebuildType", "hurricaneImpactLevel",
    "projectPriority", "estimatedBudget", "comfortableMonthly",
    "monthlyPayment", "desiredTimelineMonths", "startTimelineMonths",
    "nhtContributor", "nhtProduct", "otherFinancing", "employmentType",
    "incomeRange", "hasOverseasSponsor", "overseasSponsor", "sponsorCountry",
    "willingVisit", "visitWindow", "hearAboutUs", "leadScore", "stage",
    "notes", "leadId", "source_page" }

\* characters input strings are made of
InputChars == { " ", "a", "1" }

RECURSIVE StringsUpTo(_)
StringsUpTo(k) ==
  IF k = 0 THEN { <<>> }
  ELSE LET shorter == StringsUpTo(k - 1) IN
         shorter \cup { Append(q, c) : q \in shorter, c \in InputChars }

InputNums == { 0, 1, 12 }

\* values a field of a submission is drawn from
Values ==
  { Undefined, Null, Bool(TRUE), Bool(FALSE) }
    \cup { Num(k) : k \in InputNums }
    \cup { Str(q) : q \in StringsUpTo(MaxStrLen) }
    \cup { Str(<<"t","r","u","e">>) }

\* the empty object {}
EmptySub == [k \in Keys |-> Undefined]

\* the three contact fields only
Base3 ==
  [k \in Keys |->
     CASE k = "fullName"         -> Str(<<"a", " ", "a">>)
       [] k = "primaryPhone"     -> Str(<<"1", "1">>)
       [] k = "preferredChannel" -> Str(<<"a">>)
       [] OTHER                  -> Undefined]

\* the seven fields rb-lead.js requires
Base7 ==
  [k \in Keys |->
     CASE k = "fullName"         -> Str(<<"a", " ", "a">>)
       [] k = "primaryPhone"     -> Str(<<"1", "1">>)
       [] k = "preferredChannel" -> Str(<<"a">>)
       [] k = "parish"           -> Str(<<"a">>)
       [] k = "rebuildType"      -> Str(<<"a">>)
       [] k = "estimatedBudget"  -> Str(<<"1", "2">>)
       [] k = "monthlyPayment"   -> Str(<<"1">>)
       [] OTHER                  -> Undefined]

AliasPairs ==
  { <<"comfortableMonthly", "monthlyPayment">>,
    <<"desiredTimelineMonths", "startTimelineMonths">>,
    <<"hasOverseasSponsor", "overseasSponsor">> }

\* bodies handed to both handlers: every base with one field changed, and
\* Base7 with both aliases of a field set
Submissions ==
  { EmptySub, Base3, Base7 }
    \cup { [base EXCEPT ![k] = v] : base \in {Base3, Base7}, k \in Keys, v \in Values }
    \cup { [Base7 EXCEPT ![p[1]] = v, ![p[2]] = w] : p \in AliasPairs, v \in Values, w \in Values }

\* ------------------------------------------------------------------------
\* server.js: configuration and helpers
\* ------------------------------------------------------------------------
STAGE_DEFAULT == Str(<<"N","e","w">>)

NOTES_DEFAULT == Str(<<"C","r","e","a","t","e","d"," ","v","i","a"," ","R","e","b","u","i","l","d"," ","W","e","b"," ","F","o","r","m">>)

\* A..AB = 28 columns
LEADS_HEADERS ==
  << Str(<<"T","i","m","e","s","t","a","m","p">>),
     Str(<<"L","e","a","d"," ","I","D">>),
     Str(<<"F","u","l","l"," ","N","a","m","e">>),
     Str(<<"P","h","o","n","e">>),
     Str(<<"E","m","a","i","l">>),
     Str(<<"P","r","e","f","e","r","r","e","d"," ","C","h","a","n","n","e","l">>),
     Str(<<"P","a","r","i","s","h">>),
     Str(<<"C","o","m","m","u","n","i","t","y">>),
     Str(<<"P","r","o","p","e","r","t","y"," ","S","t","a","t","u","s">>),
     Str(<<"R","e","b","u","i","l","d"," ","T","y","p","e">>),
     Str(<<"H","u","r","r","i","c","a","n","e"," ","I","m","p","a","c","t"," ","L","e","v","e","l">>),
     Str(<<"P","r","o","j","e","c","t"," ","P","r","i","o","r","i","t","y">>),
     Str(<<"E","s","t","i","m","a","t","e","d"," ","B","u","d","g","e","t">>),
     Str(<<"C","o","m","f","o","r","t","a","b","l","e"," ","M","o","n","t","h","l","y">>),
     Str(<<"D","e","s","i","r","e","d"," ","T","i","m","e","l","i","n","e"," ","M","o","n","t","h","s">>),
     Str(<<"N","H","T"," ","C","o","n","t","r","i","b","u","t","o","r">>),
     Str(<<"N","H","T"," ","P","r","o","d","u","c","t">>),
     Str(<<"O","t","h","e","r"," ","F","i","n","a","n","c","i","n","g">>),
     Str(<<"E","m","p","l","o","y","m","e","n","t"," ","T","y","p","e">>),
     Str(<<"I","n","c","o","m","e"," ","R","a","n","g","e">>),
     Str(<<"H","a","s"," ","O","v","e","r","s","e","a","s"," ","S","p","o","n","s","o","r">>),
     Str(<<"S","p","o","n","s","o","r"," ","C","o","u","n","t","r","y">>),
     Str(<<"W","i","l","l","i","n","g"," ","V","i","s","i","t">>),
     Str(<<"V","i","s","i","t"," ","W","i","n","d","o","w">>),
     Str(<<"H","e","a","r"," ","A","b","o","u","t"," ","U","s">>),
     Str(<<"L","e","a","d"," ","S","c","o","r","e">>),
     Str(<<"S","t","a","g","e">>),
     Str(<<"N","o","t","e","s">>) >>

toNumber(x) ==
  LET n == Number(x) IN IF IsFinite(n) THEN n ELSE Num(0)

\* values of Math.floor(Math.random() * 90000) that are drawn
RandomFloors == { 0, 89999 }

\* generateLeadId with the offset one digit short
generateLeadId_offset(f) == Str(<<"R", "B">> \o Digits(f + 1000))

\* generateLeadId, given f = Math.floor(Math.random() * 90000)
generateLeadId(f) == Str(<<"R", "B">> \o Digits(f + 10000))

\* values of new Date().toISOString() that are drawn
Timestamps == { Str(<<"2","0","2","5","-","1","1","-","0","2","T","1","0",":","0","0",":","0","0",".","0","0","0","Z">>) }

\* pick(formData, keys, fallback): the first key whose value is neither
\* undefined, null nor blank after String().trim()
RECURSIVE pick(_, _, _)
pick(formData, keys, fallback) ==
  IF keys = <<>> THEN fallback
  ELSE LET v == formData[Head(keys)] IN
         IF v.t # "undef" /\ v.t # "null" /\ Trim(String(v)) # EmptyStr
         THEN v
         ELSE pick(formData, Tail(keys), fallback)

\* the three normalised required fields of the POST handler
fullName(formData) == Trim(String(pick(formData, <<"fullName">>, EmptyStr)))

primaryPhone(formData) == Trim(String(pick(formData, <<"primaryPhone">>, EmptyStr)))

preferredChannel(formData) == Trim(String(pick(formData, <<"preferredChannel">>, EmptyStr)))

\* the guard with the phone and channel tests left out
MissingContact_nameOnly(formData) == ~Truthy(fullName(formData))

\* the handler's guard  !fullName || !primaryPhone || !preferredChannel
MissingContact(formData) ==
  \/ ~Truthy(fullName(formData))
  \/ ~Truthy(primaryPhone(formData))
  \/ ~Truthy(preferredChannel(formData))

\* const leadId = String(pick(formData, ["leadId"], generateLeadId()))
ServerLeadId(formData, f) == String(pick(formData, <<"leadId">>, generateLeadId(f)))

\* the positional row of the POST handler
ServerRow(formData, leadId, timestamp) ==
  << timestamp,
     leadId,
     fullName(formData),
     primaryPhone(formData),
     String(pick(formData, <<"email">>, EmptyStr)),
     preferredChannel(formData),
     String(pick(formData, <<"parish">>, EmptyStr)),
     String(pick(formData, <<"community">>, EmptyStr)),
     String(pick(formData, <<"propertyStatus">>, EmptyStr)),
     String(pick(formData, <<"rebuildType">>, EmptyStr)),
     toNumber(pick(formData, <<"hurricaneImpactLevel">>, Num(0))),
     toNumber(pick(formData, <<"projectPriority">>, Num(0))),
     toNumber(pick(formData, <<"estimatedBudget">>, Num(0))),
     toNumber(pick(formData, <<"comfortableMonthly", "monthlyPayment">>, Num(0))),
     toNumber(pick(formData, <<"desiredTimelineMonths", "startTimelineMonths">>, Num(0))),
     String(pick(formData, <<"nhtContributor">>, EmptyStr)),
     String(pick(formData, <<"nhtProduct">>, EmptyStr)),
     String(pick(formData, <<"otherFinancing">>, EmptyStr)),
     String(pick(formData, <<"employmentType">>, EmptyStr)),
     String(pick(formData, <<"incomeRange">>, EmptyStr)),
     Trim(String(pick(formData, <<"hasOverseasSponsor", "overseasSponsor">>, EmptyStr))),
     String(pick(formData, <<"sponsorCountry">>, EmptyStr)),
     String(pick(formData, <<"willingVisit">>, EmptyStr)),
     String(pick(formData, <<"visitWindow">>, EmptyStr)),
     String(pick(formData, <<"hearAboutUs">>, EmptyStr)),
     toNumber(pick(formData, <<"leadScore">>, Num(0))),
     String(pick(formData, <<"stage">>, STAGE_DEFAULT)),
     String(pick(formData, <<"notes">>, NOTES_DEFAULT)) >>

\* the header test answering yes for any row
hasAnyHeader_always(row) == TRUE

\* row.some((cell) => String(cell || "").trim() !== "")
hasAnyHeader(row) ==
  \E i \in 1..Len(row) : Trim(String(Or(row[i], EmptyStr))) # EmptyStr

\* ------------------------------------------------------------------------
\* The spreadsheet, as the Sheets API calls of server.js see it
\* ------------------------------------------------------------------------
\* a row of the Leads tab; "by" records the request that wrote it (0: none)
HeaderRow == [kind |-> "header", by |-> 0, cells |-> LEADS_HEADERS]

LeadRow(r, cells) == [kind |-> "lead", by |-> r, cells |-> cells]

\* values.get of Leads!A1:AB1:  (current.data.values && current.data.values[0]) || []
HeaderRangeValues(rs) == IF rs = <<>> THEN <<>> ELSE rs[1].cells

\* values.update of Leads!A1:AB1 with [LEADS_HEADERS]
UpdateHeaderRange(rs) ==
  IF rs = <<>> THEN <<HeaderRow>> ELSE [rs EXCEPT ![1] = HeaderRow]

\* the write landing on the last row instead of after it
AppendRows_overwrite(rs, row) ==
  IF rs = <<>> THEN <<row>> ELSE [rs EXCEPT ![Len(rs)] = row]

\* values.append on Leads!A:AB with INSERT_ROWS: a new row after the last one
AppendRows(rs, row) == Append(rs, row)

\* ------------------------------------------------------------------------
\* State
\* ------------------------------------------------------------------------
VARIABLES
  SPREADSHEET_ID,    \* process.env.SPREADSHEET_ID || ""
  tabExists,         \* the spreadsheet has a tab titled "Leads" (LEADS_SHEET_NAME)
  rows,              \* the rows of that tab, from row 1
  frozenRowCount,    \* gridProperties.frozenRowCount of that tab
  sBody,             \* server.js: req.body of each request
  sPc,               \* server.js: where each request's handler stands
  sRes,              \* server.js: the response sent for each request
  sRow,              \* server.js: the row built for the append call
  sCalls,            \* server.js: Sheets API calls issued by each request
  sFault,            \* history: an outbound call of the request failed on its own
  sProvisioned,      \* history: tab and header were there when ensure... began
  nEvent,            \* rb-lead.js: the event handed to exports.handler
  nPc,               \* rb-lead.js: where the handler stands
  nRecord,           \* rb-lead.js: the record built by mapPayloadToRecord
  nRes,              \* rb-lead.js: the response returned
  nInserts,          \* rb-lead.js: Supabase insert calls issued
  db                 \* the rows of table rb_leads

sheetVars == <<tabExists, rows, frozenRowCount>>

serverVars == <<sBody, sPc, sRes, sRow, sCalls, sFault, sProvisioned>>

netlifyVars == <<nEvent, nPc, nRecord, nRes, nInserts, db>>

vars == <<SPREADSHEET_ID, sheetVars, serverVars, netlifyVars>>

SReqs == 1..NumReqs

NoResponse == [status |-> 0, success |-> FALSE, leadId |-> Undefined]

Response(status, success, leadId) ==
  [status |-> status, success |-> success, leadId |-> leadId]

NoCalls ==
  [get |-> 0, addSheet |-> 0, valuesGet |-> 0, headerUpdate |-> 0,
   freeze |-> 0, append |-> 0]

\* ------------------------------------------------------------------------
\* server.js: app.post("/api/rb/lead")
\* ------------------------------------------------------------------------
\* res.status(..).json(..) and return
Respond(r, status, success, leadId) ==
  /\ sRes' = [sRes EXCEPT ![r] = Response(status, success, leadId)]
  /\ sPc' = [sPc EXCEPT ![r] = "done"]

\* a catch block that tries the append again instead of answering
Catch_retry(r) ==
  /\ sPc' = [sPc EXCEPT ![r] = "append"]
  /\ UNCHANGED sRes

\* the catch block: always status 500
Catch(r) == Respond(r, 500, FALSE, Undefined)

Goto(r, label) ==
  /\ sPc' = [sPc EXCEPT ![r] = label]
  /\ UNCHANGED sRes

\* an outbound call that fails for a reason of its own (network, quota,
\* auth): it throws either before it took effect or after, its answer lost
Fails(r) ==
  /\ sFault' = [sFault EXCEPT ![r] = TRUE]
  /\ Catch(r)

\* configuration check, validation, then the call of getSheetsClient
PostLead(r) ==
  /\ sPc[r] = "start"
  /\ IF ~Truthy(SPREADSHEET_ID)
       THEN Respond(r, 500, FALSE, Undefined)
       ELSE IF MissingContact(sBody[r])
              THEN Respond(r, 400, FALSE, Undefined)
              ELSE Goto(r, "getSheetsClient")
  /\ UNCHANGED <<SPREADSHEET_ID, sheetVars, sBody, sRow, sCalls, sFault,
                 sProvisioned, netlifyVars>>

\* await getSheetsClient()
GetSheetsClient(r) ==
  /\ sPc[r] = "getSheetsClient"
  /\ \/ Goto(r, "ensureGet") /\ UNCHANGED sFault
     \/ Fails(r)
  /\ UNCHANGED <<SPREADSHEET_ID, sheetVars, sBody, sRow, sCalls,
                 sProvisioned, netlifyVars>>

\* ensureLeadsSheetAndHeaders: spreadsheets.get and the search for the tab
EnsureGet(r) ==
  /\ sPc[r] = "ensureGet"
  /\ sCalls' = [sCalls EXCEPT ![r].get = @ + 1]
  /\ sProvisioned' = [sProvisioned EXCEPT
                        ![r] = tabExists /\ hasAnyHeader(HeaderRangeValues(rows))]
  /\ \/ /\ Goto(r, IF tabExists THEN "ensureHeaderGet" ELSE "ensureAddSheet")
        /\ UNCHANGED sFault
     \/ Fails(r)
  /\ UNCHANGED <<SPREADSHEET_ID, sheetVars, sBody, sRow, netlifyVars>>

\* ensureLeadsSheetAndHeaders: batchUpdate addSheet; the service rejects a
\* title that already exists
EnsureAddSheet(r) ==
  /\ sPc[r] = "ensureAddSheet"
  /\ sCalls' = [sCalls EXCEPT ![r].addSheet = @ + 1]
  /\ \/ /\ IF ~tabExists
             THEN /\ tabExists' = TRUE
                  /\ rows' = <<>>
                  /\ Goto(r, "ensureHeaderGet")
             ELSE /\ Catch(r)
                  /\ UNCHANGED <<tabExists, rows>>
        /\ UNCHANGED <<frozenRowCount, sFault>>
     \/ /\ Fails(r)
        /\ UNCHANGED sheetVars
     \/ /\ ~tabExists
        /\ tabExists' = TRUE
        /\ rows' = <<>>
        /\ Fails(r)
        /\ UNCHANGED frozenRowCount
  /\ UNCHANGED <<SPREADSHEET_ID, sBody, sRow, sProvisioned, netlifyVars>>

\* ensureLeadsSheetAndHeaders: values.get of A1:AB1 and hasAnyHeader
EnsureHeaderGet(r) ==
  /\ sPc[r] = "ensureHeaderGet"
  /\ sCalls' = [sCalls EXCEPT ![r].valuesGet = @ + 1]
  /\ \/ /\ IF tabExists
             THEN Goto(r, IF hasAnyHeader(HeaderRangeValues(rows))
                            THEN "append" ELSE "ensureHeaderUpdate")
             ELSE Catch(r)
        /\ UNCHANGED sFault
     \/ Fails(r)
  /\ UNCHANGED <<SPREADSHEET_ID, sheetVars, sBody, sRow, sProvisioned,
                 netlifyVars>>

\* ensureLeadsSheetAndHeaders: values.update of A1:AB1
EnsureHeaderUpdate(r) ==
  /\ sPc[r] = "ensureHeaderUpdate"
  /\ sCalls' = [sCalls EXCEPT ![r].headerUpdate = @ + 1]
  /\ \/ /\ IF tabExists
             THEN /\ rows' = UpdateHeaderRange(rows)
                  /\ Goto(r, "ensureFreezeGet")
             ELSE /\ Catch(r)
                  /\ UNCHANGED rows
        /\ UNCHANGED <<tabExists, frozenRowCount, sFault>>
     \/ /\ Fails(r)
        /\ UNCHANGED sheetVars
     \/ /\ tabExists
        /\ rows' = UpdateHeaderRange(rows)
        /\ Fails(r)
        /\ UNCHANGED <<tabExists, frozenRowCount>>
  /\ UNCHANGED <<SPREADSHEET_ID, sBody, sRow, sProvisioned, netlifyVars>>

\* ensureLeadsSheetAndHeaders: second spreadsheets.get, for the sheetId
EnsureFreezeGet(r) ==
  /\ sPc[r] = "ensureFreezeGet"
  /\ sCalls' = [sCalls EXCEPT ![r].get = @ + 1]
  /\ \/ /\ Goto(r, IF tabExists THEN "ensureFreeze" ELSE "append")
        /\ UNCHANGED sFault
     \/ Fails(r)
  /\ UNCHANGED <<SPREADSHEET_ID, sheetVars, sBody, sRow, sProvisioned,
                 netlifyVars>>

\* ensureLeadsSheetAndHeaders: batchUpdate updateSheetProperties
EnsureFreeze(r) ==
  /\ sPc[r] = "ensureFreeze"
  /\ sCalls' = [sCalls EXCEPT ![r].freeze = @ + 1]
  /\ \/ /\ frozenRowCount' = 1
        /\ Goto(r, "append")
        /\ UNCHANGED <<tabExists, rows, sFault>>
     \/ /\ Fails(r)
        /\ UNCHANGED sheetVars
     \/ /\ frozenRowCount' = 1
        /\ Fails(r)
        /\ UNCHANGED <<tabExists, rows>>
  /\ UNCHANGED <<SPREADSHEET_ID, sBody, sRow, sProvisioned, netlifyVars>>

\* leadId, timestamp, row, values.append and the 200 response
AppendLead(r) ==
  /\ sPc[r] = "append"
  /\ \E f \in RandomFloors, timestamp \in Timestamps :
       LET leadId == ServerLeadId(sBody[r], f)
           row == ServerRow(sBody[r], leadId, timestamp)
       IN /\ sRow' = [sRow EXCEPT ![r] = row]
          /\ sCalls' = [sCalls EXCEPT ![r].append = @ + 1]
          /\ \/ /\ IF tabExists
                     THEN /\ rows' = AppendRows(rows, LeadRow(r, row))
                          /\ Respond(r, 200, TRUE, leadId)
                     ELSE /\ Catch(r)
                          /\ UNCHANGED rows
                /\ UNCHANGED <<tabExists, frozenRowCount, sFault>>
             \/ /\ Fails(r)
                /\ UNCHANGED sheetVars
             \/ /\ tabExists
                /\ rows' = AppendRows(rows, LeadRow(r, row))
                /\ Fails(r)
                /\ UNCHANGED <<tabExists, frozenRowCount>>
  /\ UNCHANGED <<SPREADSHEET_ID, sBody, sProvisioned, netlifyVars>>

ServerStep(r) ==
  \/ PostLead(r)
  \/ GetSheetsClient(r)
  \/ EnsureGet(r)
  \/ EnsureAddSheet(r)
  \/ EnsureHeaderGet(r)
  \/ EnsureHeaderUpdate(r)
  \/ EnsureFreezeGet(r)
  \/ EnsureFreeze(r)
  \/ AppendLead(r)

\* ------------------------------------------------------------------------
\* netlify/functions/rb-lead.js
\* ------------------------------------------------------------------------
\* generateLeadId of rb-lead.js, given f = Math.floor(Math.random() * 90000)
rbGenerateLeadId(f) == Str(<<"R", "B">> \o Digits(f + 10000))

\* payload.x ? Number(payload.x) : null
NumberOrNull(v) == IF Truthy(v) THEN Number(v) ELSE Null

\* String(payload.x || '').trim()
TrimmedOrEmpty(v) == Trim(String(Or(v, EmptyStr)))

mapPayloadToRecord(payload, meta, f) ==
  [ lead_id                |-> String(Or(payload["leadId"], rbGenerateLeadId(f))),
    full_name              |-> TrimmedOrEmpty(payload["fullName"]),
    primary_phone          |-> TrimmedOrEmpty(payload["primaryPhone"]),
    email                  |-> TrimmedOrEmpty(payload["email"]),
    preferred_channel      |-> TrimmedOrEmpty(payload["preferredChannel"]),
    hear_about_us          |-> TrimmedOrEmpty(payload["hearAboutUs"]),
    parish                 |-> TrimmedOrEmpty(payload["parish"]),
    community              |-> TrimmedOrEmpty(payload["community"]),
    property_status        |-> TrimmedOrEmpty(payload["propertyStatus"]),
    rebuild_type           |-> TrimmedOrEmpty(payload["rebuildType"]),
    hurricane_impact_level |-> NumberOrNull(payload["hurricaneImpactLevel"]),
    project_priority       |-> NumberOrNull(payload["projectPriority"]),
    estimated_budget       |-> TrimmedOrEmpty(payload["estimatedBudget"]),
    monthly_payment        |-> Trim(String(Or(payload["monthlyPayment"],
                                              Or(payload["comfortableMonthly"], EmptyStr)))),
    start_timeline_months  |-> IF Truthy(payload["startTimelineMonths"])
                                 THEN Number(payload["startTimelineMonths"])
                                 ELSE NumberOrNull(payload["desiredTimelineMonths"]),
    nht_contributor        |-> TrimmedOrEmpty(payload["nhtContributor"]),
    employment_type        |-> TrimmedOrEmpty(payload["employmentType"]),
    nht_product            |-> TrimmedOrEmpty(payload["nhtProduct"]),
    other_financing        |-> TrimmedOrEmpty(payload["otherFinancing"]),
    income_range           |-> TrimmedOrEmpty(payload["incomeRange"]),
    overseas_sponsor       |-> Bool(\/ payload["overseasSponsor"] = Bool(TRUE)
                                    \/ payload["overseasSponsor"] = Str(<<"t","r","u","e">>)),
    sponsor_country        |-> TrimmedOrEmpty(payload["sponsorCountry"]),
    willing_visit          |-> TrimmedOrEmpty(payload["willingVisit"]),
    visit_window           |-> TrimmedOrEmpty(payload["visitWindow"]),
    source_page            |-> Or(meta.source_page, Null),
    user_agent             |-> Or(meta.user_agent, Null),
    ip                     |-> Or(meta.ip, Null) ]

\* the keys of the required list, in its order
required ==
  << "fullName", "primaryPhone", "preferredChannel", "parish", "rebuildType",
     "estimatedBudget", "monthlyPayment" >>

\* the filter predicate of missing
IsMissing(v) ==
  \/ v.t = "undef"
  \/ v.t = "null"
  \/ (v.t = "str" /\ Trim(v) = EmptyStr)

\* required.filter(...): the required keys the payload lacks
missing(payload) == SelectSeq(required, LAMBDA k : IsMissing(payload[k]))

HeaderNames ==
  { "x-nf-client-connection-ip", "x-forwarded-for", "user-agent", "referer",
    "referrer" }

NoHeaders == [h \in HeaderNames |-> Undefined]

BrowserHeaders ==
  [h \in HeaderNames |->
     CASE h = "x-nf-client-connection-ip" -> Str(<<"1">>)
       [] h = "user-agent"                -> Str(<<"a">>)
       [] h = "referer"                   -> Str(<<"a", "1">>)
       [] OTHER                           -> Undefined]

ProxyHeaders ==
  [h \in HeaderNames |->
     CASE h = "x-forwarded-for" -> Str(<<"1", "1">>)
       [] h = "referrer"        -> Str(<<"a">>)
       [] OTHER                 -> Undefined]

\* ip, user_agent and source_page of the handler
RequestMeta(payload, headers) ==
  [ ip          |-> Or(headers["x-nf-client-connection-ip"],
                       Or(headers["x-forwarded-for"], Null)),
    user_agent  |-> Or(headers["user-agent"], Null),
    source_page |-> Or(payload["source_page"],
                       Or(headers["referer"], Or(headers["referrer"], Null))) ]

\* event.body: absent or empty, not JSON, the JSON literal null, or an object
Body(kind, payload) == [kind |-> kind, payload |-> payload]

Event(method, body, headers) ==
  [httpMethod |-> method, body |-> body, headers |-> headers]

NoRecord == [lead_id |-> Undefined]

NReturn(status, success, leadId) ==
  /\ nRes' = Response(status, success, leadId)
  /\ nPc' = "done"

\* exports.handler up to the insert call: method check, JSON.parse,
\* required-field filter, meta and mapPayloadToRecord.  The two endpoints
\* share no state; the client posts to this one once server.js has answered.
\* Values are the JSON primitives, so Array.isArray(payload.hearAboutUs) is
\* false.
Handler ==
  /\ nPc = "start"
  /\ \A r \in SReqs : sPc[r] \in {"idle", "done"}
  /\ IF nEvent.httpMethod # "POST"
       THEN NReturn(405, FALSE, Undefined) /\ UNCHANGED nRecord
     ELSE IF nEvent.body.kind = "invalid"
       THEN NReturn(400, FALSE, Undefined) /\ UNCHANGED nRecord
     ELSE IF nEvent.body.kind = "null"
       \* payload[r.key] on null throws a TypeError outside any try block
       THEN nPc' = "threw" /\ UNCHANGED <<nRes, nRecord>>
     ELSE
       LET payload == IF nEvent.body.kind = "object"
                        THEN nEvent.body.payload ELSE EmptySub
       IN IF Len(missing(payload)) > 0
            THEN NReturn(400, FALSE, Undefined) /\ UNCHANGED nRecord
            ELSE \E f \in RandomFloors :
                   /\ nRecord' = mapPayloadToRecord(
                                   payload, RequestMeta(payload, nEvent.headers), f)
                   /\ nPc' = "insert"
                   /\ UNCHANGED nRes
  /\ UNCHANGED <<SPREADSHEET_ID, sheetVars, serverVars, nEvent, nInserts, db>>

\* supabase.from('rb_leads').insert(record).select('lead_id').single()
\* and the ways the handler returns from it: the row is stored and read back
\* as stored (200); the call answers { error } or throws (500, in both
\* cases), before the row was stored or after
Insert ==
  /\ nPc = "insert"
  /\ nInserts' = nInserts + 1
  /\ \/ /\ db' = Append(db, nRecord)
        /\ LET data == [lead_id |-> nRecord.lead_id]
           IN NReturn(200, TRUE, Or(data.lead_id, nRecord.lead_id))
     \/ /\ NReturn(500, FALSE, Undefined)
        /\ UNCHANGED db
     \/ /\ NReturn(500, FALSE, Undefined)
        /\ db' = Append(db, nRecord)
  /\ UNCHANGED <<SPREADSHEET_ID, sheetVars, serverVars, nEvent, nRecord>>

\* ------------------------------------------------------------------------
\* Specifications
\* ------------------------------------------------------------------------
LegacyRow ==
  LeadRow(0, ServerRow(Base3, Str(<<"R","B","1","0","0","0","1">>),
                       Str(<<"2","0","2","5","-","1","1","-","0","1","T","0","9",":","0","0",":","0","0",".","0","0","0","Z">>)))

\* the Leads tab before the requests: <<tabExists, rows>>
SheetStates ==
  { <<FALSE, <<>>>>, <<TRUE, <<>>>>, <<TRUE, <<HeaderRow>>>>,
    <<TRUE, <<HeaderRow, LegacyRow>>>> }

SpreadsheetIds == { EmptyStr, Str(<<"1", "a">>) }

\* bodies of the concurrent requests
ConcurrentSubmissions ==
  { EmptySub, Base3, [Base3 EXCEPT !["leadId"] = Str(<<"a", "1">>)] }

InitServerIdle ==
  /\ sRes = [r \in SReqs |-> NoResponse]
  /\ sRow = [r \in SReqs |-> <<>>]
  /\ sCalls = [r \in SReqs |-> NoCalls]
  /\ sFault = [r \in SReqs |-> FALSE]
  /\ sProvisioned = [r \in SReqs |-> FALSE]

InitNetlifyIdle ==
  /\ nRecord = NoRecord
  /\ nRes = NoResponse
  /\ nInserts = 0
  /\ db = <<>>

\* NumReqs concurrent requests to server.js
Init ==
  /\ SPREADSHEET_ID \in SpreadsheetIds
  /\ \E st \in SheetStates : tabExists = st[1] /\ rows = st[2]
  /\ frozenRowCount = 0
  /\ sBody \in [SReqs -> ConcurrentSubmissions]
  /\ sPc = [r \in SReqs |-> "start"]
  /\ InitServerIdle
  /\ nEvent = Event("POST", Body("absent", EmptySub), NoHeaders)
  /\ nPc = "idle"
  /\ InitNetlifyIdle

Next == \E r \in SReqs : ServerStep(r)

Spec == Init /\ [][Next]_vars

\* events besides the POST of a submission
OtherEvents ==
  { Event("GET", Body("absent", EmptySub), BrowserHeaders),
    Event("POST", Body("absent", EmptySub), BrowserHeaders),
    Event("POST", Body("invalid", EmptySub), BrowserHeaders),
    Event("POST", Body("null", EmptySub), BrowserHeaders),
    Event("POST", Body("object", Base7), NoHeaders),
    Event("POST", Body("object", Base7), ProxyHeaders) }

HandlerEvents ==
  { Event("POST", Body("object", sub), BrowserHeaders) : sub \in Submissions }
    \cup OtherEvents

\* one submission posted to server.js and then to rb-lead.js
InitHandlers ==
  /\ SPREADSHEET_ID \in SpreadsheetIds
  /\ \E st \in {<<FALSE, <<>>>>, <<TRUE, <<HeaderRow>>>>} :
       tabExists = st[1] /\ rows = st[2]
  /\ frozenRowCount = 0
  /\ nEvent \in HandlerEvents
  /\ sBody = [r \in SReqs |-> nEvent.body.payload]
  /\ sPc = [r \in SReqs |-> IF r = 1 THEN "start" ELSE "idle"]
  /\ InitServerIdle
  /\ nPc = "start"
  /\ InitNetlifyIdle

NextHandlers ==
  \/ \E r \in SReqs : ServerStep(r)
  \/ Handler
  \/ Insert

SpecHandlers == InitHandlers /\ [][NextHandlers]_vars

\* ------------------------------------------------------------------------
\* Properties
\* ------------------------------------------------------------------------
ContactKeys == { "fullName", "primaryPhone", "preferredChannel" }

\* absent, null, or a string that is blank after trimming
Blank(v) ==
  \/ v.t \in {"undef", "null"}
  \/ (v.t = "str" /\ \A i \in 1..Len(v.s) : v.s[i] = " ")

ContactBlank(sub) == \E k \in ContactKeys : Blank(sub[k])

Configured == SPREADSHEET_ID.s # <<>>

\* the POST event carries a JSON object (or no body, which parses as {})
IsSubmission == nEvent.httpMethod = "POST" /\ nEvent.body.kind \in {"object", "absent"}

RecordBuilt == nRecord.lead_id # Undefined

\* C1 (as stated): a submission lacking fullName, primaryPhone or
\* preferredChannel is answered 400 by both handlers, whatever the
\* configuration, and no sink call is issued for it.
C1_Original ==
  /\ \A r \in SReqs :
       (sPc[r] = "done" /\ ContactBlank(sBody[r])) =>
         (sRes[r].status = 400 /\ sCalls[r] = NoCalls)
  /\ (nPc = "done" /\ IsSubmission /\ ContactBlank(nEvent.body.payload)) =>
       (nRes.status = 400 /\ nInserts = 0)

\* C1 (amended): such a submission never reaches a sink call in either
\* handler; rb-lead.js answers 400, and server.js answers 400 when
\* SPREADSHEET_ID is configured and 500 when it is not.
C1_Validation ==
  /\ \A r \in SReqs :
       ContactBlank(sBody[r]) =>
         /\ sPc[r] \in {"idle", "start", "done"}
         /\ sCalls[r] = NoCalls
         /\ sRow[r] = <<>>
         /\ sPc[r] = "done" =>
              sRes[r].status = (IF Configured THEN 400 ELSE 500)
  /\ (IsSubmission /\ ContactBlank(nEvent.body.payload)) =>
       /\ nPc \in {"start", "done"}
       /\ nInserts = 0
       /\ db = <<>>
       /\ nPc = "done" => nRes.status = 400

\* both handlers have rejected a submission that has the seven fields
\* rb-lead.js requires, with primaryPhone a blank string
C1_Witness ==
  /\ nEvent.body.kind = "object"
  /\ nEvent.body.payload["primaryPhone"] = Str(<<" ", " ">>)
  /\ nEvent.body.payload["monthlyPayment"] = Str(<<"1">>)
  /\ Configured
  /\ sPc[1] = "done" /\ sRes[1].status = 400
  /\ nPc = "done" /\ nRes.status = 400

\* C2: in every record handed to a sink, fullName, primaryPhone and
\* preferredChannel are non-empty strings equal to the trimmed input; inputs
\* that would be stored empty (0 and false included) are rejected.
C2_RequiredNonEmpty ==
  /\ \A r \in SReqs :
       sRow[r] # <<>> =>
         /\ sRow[r][3] = Str(TrimChars(StringChars(sBody[r]["fullName"])))
         /\ sRow[r][4] = Str(TrimChars(StringChars(sBody[r]["primaryPhone"])))
         /\ sRow[r][6] = Str(TrimChars(StringChars(sBody[r]["preferredChannel"])))
         /\ sRow[r][3].s # <<>> /\ sRow[r][4].s # <<>> /\ sRow[r][6].s # <<>>
  /\ RecordBuilt =>
       /\ nRecord.full_name.s # <<>>
       /\ nRecord.primary_phone.s # <<>>
       /\ nRecord.preferred_channel.s # <<>>
       /\ nRecord.full_name = Str(TrimChars(StringChars(nEvent.body.payload["fullName"])))
       /\ nRecord.primary_phone = Str(TrimChars(StringChars(nEvent.body.payload["primaryPhone"])))
       /\ nRecord.preferred_channel = Str(TrimChars(StringChars(nEvent.body.payload["preferredChannel"])))

\* "RB" followed by the decimal digits of an integer in 10000..99999
IsGeneratedId(v) ==
  /\ v.t = "str"
  /\ Len(v.s) = 7
  /\ v.s[1] = "R" /\ v.s[2] = "B"
  /\ \A i \in 3..7 : IsDigit(v.s[i])
  /\ v.s[3] # "0"

\* the caller put a leadId string in the body
Supplied(v) == v.t = "str" /\ v.s # <<>>

\* C3 (as stated): whenever the caller supplies a leadId, the id written to
\* the sink and the id of the 200 response are the supplied value; an id is
\* generated only when none was supplied.
C3_Original ==
  /\ \A r \in SReqs :
       (sRow[r] # <<>> /\ Supplied(sBody[r]["leadId"])) =>
         /\ sRow[r][2] = Str(StringChars(sBody[r]["leadId"]))
         /\ sRes[r].status = 200 => sRes[r].leadId = sRow[r][2]
  /\ (RecordBuilt /\ Supplied(nEvent.body.payload["leadId"])) =>
       /\ nRecord.lead_id = Str(StringChars(nEvent.body.payload["leadId"]))
       /\ nRes.status = 200 => nRes.leadId = nRecord.lead_id

\* server.js counts a leadId as given when it is not blank after trimming
GivenToServer(v) ==
  v.t \notin {"undef", "null"} /\ TrimChars(StringChars(v)) # <<>>

\* rb-lead.js counts a leadId as given when it is truthy
GivenToNetlify(v) ==
  \/ (v.t = "str" /\ v.s # <<>>)
  \/ (v.t = "num" /\ v.n # 0)
  \/ (v.t = "bool" /\ v.b)

\* C3 (amended): a leadId the handler counts as given (server.js: not null
\* and not blank after trimming; rb-lead.js: truthy) is written to the sink
\* and returned in the 200 response as String(leadId), untrimmed; in every
\* other case the id is generated, "RB" followed by an integer in
\* 10000..99999.
C3_LeadId ==
  /\ \A r \in SReqs :
       sRow[r] # <<>> =>
         LET v == sBody[r]["leadId"] IN
           /\ GivenToServer(v) => sRow[r][2] = Str(StringChars(v))
           /\ ~GivenToServer(v) => IsGeneratedId(sRow[r][2])
           /\ sRes[r].status = 200 => sRes[r].leadId = sRow[r][2]
  /\ RecordBuilt =>
       LET v == nEvent.body.payload["leadId"] IN
         /\ GivenToNetlify(v) => nRecord.lead_id = Str(StringChars(v))
         /\ ~GivenToNetlify(v) => IsGeneratedId(nRecord.lead_id)
         /\ nRes.status = 200 => nRes.leadId = nRecord.lead_id

\* both handlers answered 200 with the untrimmed leadId " a"
C3_Witness ==
  /\ sRes[1].status = 200 /\ sRes[1].leadId = Str(<<" ", "a">>)
  /\ nRes.status = 200 /\ nRes.leadId = Str(<<" ", "a">>)
  /\ db # <<>> /\ db[1].lead_id = Str(<<" ", "a">>)

\* a string or number that reads as a positive amount
Amount(v) == v.t \in {"str", "num"} /\ Number(v).t = "num" /\ Number(v).n > 0

\* both aliases are present, non-blank and of different amounts
BothGiven(sub, a, b) ==
  Amount(sub[a]) /\ Amount(sub[b]) /\ Number(sub[a]) # Number(sub[b])

\* C4: when both aliases of a field are given with different values, the
\* row of server.js and the record of rb-lead.js take the value of the same
\* alias.
C4_AliasConsistent ==
  (sRow[1] # <<>> /\ RecordBuilt /\ sBody[1] = nEvent.body.payload) =>
    LET sub == sBody[1] IN
      /\ BothGiven(sub, "comfortableMonthly", "monthlyPayment") =>
           \E k \in {"comfortableMonthly", "monthlyPayment"} :
             /\ sRow[1][14] = toNumber(sub[k])
             /\ nRecord.monthly_payment = Str(TrimChars(StringChars(sub[k])))
      /\ BothGiven(sub, "desiredTimelineMonths", "startTimelineMonths") =>
           \E k \in {"desiredTimelineMonths", "startTimelineMonths"} :
             /\ sRow[1][15] = toNumber(sub[k])
             /\ nRecord.start_timeline_months = Number(sub[k])

\* C5: the record handed to a sink is fully populated: an absent numeric
\* field is stored as 0 and an absent string field as "", never null;
\* stage and notes take the configured defaults.
C5_FullyPopulated ==
  /\ \A r \in SReqs :
       sRow[r] # <<>> =>
         /\ sBody[r]["hurricaneImpactLevel"] = Undefined => sRow[r][11] = Num(0)
         /\ sBody[r]["projectPriority"] = Undefined => sRow[r][12] = Num(0)
         /\ sBody[r]["leadScore"] = Undefined => sRow[r][26] = Num(0)
         /\ sBody[r]["email"] = Undefined => sRow[r][5] = EmptyStr
         /\ Blank(sBody[r]["stage"]) => sRow[r][27] = STAGE_DEFAULT
         /\ Blank(sBody[r]["notes"]) => sRow[r][28] = NOTES_DEFAULT
         /\ \A i \in 1..Len(sRow[r]) : sRow[r][i].t \in {"str", "num"}
  /\ RecordBuilt =>
       LET sub == nEvent.body.payload IN
         /\ sub["hurricaneImpactLevel"] = Undefined => nRecord.hurricane_impact_level = Num(0)
         /\ sub["projectPriority"] = Undefined => nRecord.project_priority = Num(0)
         /\ (sub["startTimelineMonths"] = Undefined /\ sub["desiredTimelineMonths"] = Undefined)
              => nRecord.start_timeline_months = Num(0)
         /\ sub["email"] = Undefined => nRecord.email = EmptyStr

\* write calls a request issued to the spreadsheet
WriteCalls(r) ==
  sCalls[r].addSheet + sCalls[r].headerUpdate + sCalls[r].freeze + sCalls[r].append

\* the request got past the configuration check and the validation
PassedValidation(r) == Configured /\ ~ContactBlank(sBody[r]) /\ sPc[r] # "idle"

\* C6 (as stated): a request that passes validation performs exactly one
\* outbound write call over its lifetime, also when the Leads tab or its
\* header row does not exist yet; a rejected request performs none.
C6_Original ==
  /\ \A r \in SReqs :
       /\ (sPc[r] = "done" /\ PassedValidation(r) /\ ~sFault[r]) => WriteCalls(r) = 1
       /\ (sPc[r] = "done" /\ PassedValidation(r) /\ sFault[r]) => WriteCalls(r) <= 1
       /\ (sPc[r] = "done" /\ ~PassedValidation(r)) => WriteCalls(r) = 0
  /\ (nPc = "done" /\ nRes.status \in {200, 500}) => nInserts = 1
  /\ (nPc = "done" /\ nRes.status \in {400, 405}) => nInserts = 0

\* C6 (amended): a request issues its lead-row write (values.append,
\* insert) at most once: exactly once when it answers 200, never again after
\* a failure, and not at all when it is rejected by the configuration check
\* or the validation, which issue no sink call; in server.js the append
\* comes after at most one addSheet, one header update and one freeze,
\* issued when the tab or the header row is missing.
C6_SingleWrite ==
  /\ \A r \in SReqs :
       /\ sCalls[r].append <= 1
       /\ sCalls[r].addSheet <= 1
       /\ sCalls[r].headerUpdate <= 1
       /\ sCalls[r].freeze <= 1
       /\ sRes[r].status = 200 => sCalls[r].append = 1
       /\ Cardinality({i \in 1..Len(rows) : rows[i].by = r}) <= sCalls[r].append
       /\ (sRes[r].status = 400 \/ ~Configured) => sCalls[r] = NoCalls
  /\ nInserts <= 1
  /\ Len(db) <= nInserts
  /\ nRes.status = 200 => (nInserts = 1 /\ Len(db) = 1)
  /\ nRes.status \in {400, 405} => nInserts = 0

\* a request provisioned the tab, wrote its row once and answered 200, and
\* the rb-lead.js invocation inserted once and answered 200
C6_Witness ==
  /\ sRes[1].status = 200
  /\ sCalls[1] = [get |-> 2, addSheet |-> 1, valuesGet |-> 1, headerUpdate |-> 1,
                  freeze |-> 1, append |-> 1]
  /\ nRes.status = 200 /\ nInserts = 1

\* C7: every POST ends with exactly one JSON response and no error escapes
\* a handler; a failed sink call gives {success:false} with 500 or 502, and
\* 200 {success:true} is sent only after the append or insert succeeded.
C7_AlwaysResponds ==
  /\ nPc # "threw"
  /\ nPc = "done" <=> nRes # NoResponse
  /\ \A r \in SReqs :
       /\ sPc[r] = "done" <=> sRes[r] # NoResponse
       /\ sFault[r] => (sRes[r].status \in {500, 502} /\ ~sRes[r].success)
       /\ sRes[r].status = 200 =>
            (sRes[r].success /\ \E i \in 1..Len(rows) : rows[i].by = r)
  /\ nRes.status = 200 => (nRes.success /\ db = <<nRecord>>)

\* row 1 of the tab has a cell that is not blank
HeaderPresent ==
  /\ tabExists
  /\ rows # <<>>
  /\ \E i \in 1..Len(rows[1].cells) :
       /\ rows[1].cells[i].t = "str"
       /\ \E j \in 1..Len(rows[1].cells[i].s) : rows[1].cells[i].s[j] # " "

\* C8: when a request is about to issue its append, the Leads tab exists
\* and row 1 has a non-blank cell; and a request whose
\* ensureLeadsSheetAndHeaders began with the tab and header in place issues
\* no addSheet, no header update and no freeze.
C8_ProvisionedBeforeAppend ==
  \A r \in SReqs :
    /\ sPc[r] = "append" => HeaderPresent
    /\ sCalls[r].append > 0 => HeaderPresent
    /\ sProvisioned[r] =>
         (sCalls[r].addSheet = 0 /\ sCalls[r].headerUpdate = 0 /\ sCalls[r].freeze = 0)

\* one request wrote the header itself and stands before its append, while
\* another found tab and header in place and has appended without a write
C8_Witness ==
  \E r, q \in SReqs :
    /\ sPc[r] = "append" /\ sCalls[r].headerUpdate = 1 /\ sCalls[r].addSheet = 1
    /\ sProvisioned[q] /\ sRes[q].status = 200 /\ sCalls[q].append = 1

\* C9: concurrent requests do not affect one another: a valid request none
\* of whose calls failed on its own is answered 200, and among such requests
\* at most one issues the addSheet call.
C9_Independent ==
  /\ \A r \in SReqs :
       (sPc[r] = "done" /\ PassedValidation(r) /\ ~sFault[r]) => sRes[r].status = 200
  /\ Cardinality({r \in SReqs : sCalls[r].addSheet > 0 /\ ~sFault[r]}) <= 1

\* C10: no acknowledged lead is lost or overwritten: the row of every
\* request answered 200 is in the tab, once, and row 1 never holds a lead.
C10_NoLostLead ==
  /\ \A r \in SReqs :
       sRes[r].status = 200 =>
         Cardinality({i \in 1..Len(rows) : rows[i] = LeadRow(r, sRow[r])}) = 1
  /\ rows # <<>> => rows[1].kind = "header"
  /\ \A i \in 2..Len(rows) : rows[i].kind = "lead"

\* a request is about to write the header row while the row of a request
\* already answered 200 is in the tab
C10_Witness ==
  \E r, q \in SReqs :
    /\ sPc[q] = "ensureHeaderUpdate"
    /\ sRes[r].status = 200
    /\ rows[Len(rows)] = LeadRow(r, sRow[r])

====
